---- MODULE Spec2Model ----
(***************************************************************************)
(* Model of the synchronisation engine of ironworks:                       *)
(*   - the dependency resolver  (command.rs, fetch_workshop_details_...)   *)
(*   - the process supervisor   (command.rs, WorkerProcess)                *)
(*   - the import reconciliation and the download batch (main.rs)          *)
(*   - the update reconciliation (main.rs), sharing the download batch     *)
(*   - the checksum of a directory (command.rs, calculate_checksum)        *)
(* Each part has its own specification over the shared variables; the      *)
(* variables of the other parts stay at their initial value.               *)
(***************************************************************************)
EXTENDS Integers, Sequences, FiniteSets, TLC

VARIABLES
    \* ---- dependency resolver ----
    meta,                 \* the remote catalog: id -> response item
    file_ids,             \* the root ids the call was given
    cached_file_details,  \* keys of the result map (values are meta[id])
    new_file_ids,         \* the frontier of the current round
    remaining,            \* ids of the frontier the chunk iterator has not yielded yet
    child_ids,            \* children collected during the current round
    fetchCount,           \* id -> number of times it was put in a request (saturating)
    rpc                   \* position in the resolver: idle, loop, chunks, done, failed, panicked

VARIABLES
    \* ---- process supervisor (one WorkerProcess handle) ----
    emitted,          \* the lines the helper emits over its life (without the newline);
                      \* cut down to what was written when the helper is killed
    todo,             \* bytes the helper has not written yet
    pipe,             \* bytes written and not yet consumed by read_line
    pipeClosed,       \* the pseudo-console output has reached end of stream
    proc,             \* "none", "running", "exited"
    exitCode,         \* exit status of the process once exited
    reader,           \* read_jh: "none", "read", "check", "exited"
    interrupts,       \* messages waiting in the interrupt channel
    interruptTx,      \* _read_interrupt is alive
    interruptSent,    \* number of send calls made on _read_interrupt
    killAttempted,    \* proc.exit(1) has been called
    output,           \* "none", "some" (receiver in the handle), "taken", "dropped"
    lines,            \* messages in the lines channel
    received,         \* lines the consumer got from the receiver, in order
    consumer,         \* logger thread: "none", "running", "done"
    handle,           \* owner of the handle: "none", "live", "returned", "dropped",
                      \* "panicked" (unwinding, the handle not dropped yet)
    waitResult        \* what wait returned

VARIABLES
    take_results      \* how the calls of take_output ended, in order:
                      \* "receiver" or "panic"

VARIABLES
    \* ---- the calls of one resolver round, at the grain of call and return ----
    batches,              \* the chunks the current round has passed to get_published_file_details
    in_flight             \* the chunks whose call has started and not returned

callVars == <<batches, in_flight>>

resolverVars == <<meta, file_ids, cached_file_details, new_file_ids, remaining,
                  child_ids, fetchCount, rpc>>

workerVars == <<emitted, todo, pipe, pipeClosed, proc, exitCode, reader, interrupts,
                interruptTx, interruptSent, killAttempted, output, lines,
                received, consumer, handle, waitResult>>

VARIABLES
    \* ---- import reconciliation and download batch ----
    manifest,             \* the manifest read: a sequence of Mod entries
    local,                \* collection directory: id -> "absent" or the checksum of the folder
    bpc,                  \* position: idle, diff, confirm, download, done, failed
    next_entry,           \* index of the next manifest entry of the diff loop
    entries_to_download,  \* the schedule: sequence of <<entry, rationale>>
    skipped,              \* indices of the manifest entries skipped by the diff loop
    ignore_checksum,      \* the flag download was called with
    next_download,        \* index of the next schedule entry of the download loop
    errors,               \* the error counter of download
    spawned,              \* schedule indices for which the helper was spawned
    spawnAttempts,        \* schedule indices for which a spawn was attempted
    waitFailed,           \* schedule indices whose wait returned an error
    copied,               \* schedule indices whose content was copied into the collection
    verified,             \* schedule indices whose checksum was recomputed
    mismatched,           \* schedule indices whose recomputed checksum differed
    reported              \* the error count of the final report, -1 when none was printed

batchVars == <<manifest, local, bpc, next_entry, entries_to_download, skipped,
               ignore_checksum, next_download, errors, spawned, spawnAttempts,
               waitFailed, copied, verified, mismatched, reported>>

VARIABLES
    \* ---- the collection directory itself, and the last folder replacement ----
    collection_dir,       \* "missing", "present", or "created" (by get_collection_dir)
    last_copy             \* the last call of copy_downloaded_workshop_item:
                          \* [id, before, source, ok]

folderVars == <<collection_dir, last_copy>>

VARIABLES
    answer                \* what was typed at "Confirm? [Y/n]": "none", "yes", "no"

VARIABLES
    \* ---- update reconciliation (main, CliCommand::Update) ----
    mode,                 \* the command being run: "none", "import", "update"
    workshop_details,     \* the map the resolver returns: id -> response item
    local_created,        \* id -> creation time of the local folder, NoTime when none
    unclassified,         \* keys of workshop_details the loop has not visited yet
    ids_with_error,       \* sequence of ids
    ids_to_download,      \* sequence of ids (title and times are those of the id)
    ids_to_ignore         \* sequence of ids

updateVars == <<mode, workshop_details, local_created, unclassified, ids_with_error,
                ids_to_download, ids_to_ignore>>

VARIABLES
    \* ---- checksum of a directory (command.rs, calculate_checksum) ----
    tree,                 \* the files below the directory: a set of [path, content]
    root_ok,              \* the directory itself can be traversed
    enum_order,           \* the order in which the file system lists names
    returned,             \* what the last call returned
    prev_returned,        \* what the call before the last change returned
    edit,                 \* the last change made to the directory
    cpc                   \* position: idle, start, computed, edited, recomputed

checksumVars == <<tree, root_ok, enum_order, returned, prev_returned, edit, cpc>>

vars == <<resolverVars, callVars, workerVars, take_results, batchVars, folderVars, answer, updateVars,
          checksumVars>>

notCallVars == <<workerVars, take_results, batchVars, folderVars, answer, updateVars, checksumVars>>
notResolverVars == <<callVars, notCallVars>>
notWorkerVars == <<resolverVars, callVars, batchVars, folderVars, answer, updateVars, checksumVars>>
notBatchVars == <<resolverVars, callVars, workerVars, take_results, checksumVars>>
notChecksumVars == <<resolverVars, callVars, workerVars, take_results, batchVars, folderVars, answer, updateVars>>

----------------------------------------------------------------------------
(* Bounds of the resolver inputs *)

NumIds == 6          \* ids are 1..NumIds
MaxChildren == 2     \* a hub lists at most this many children
FetchCap == 3        \* fetchCount saturates here

(* Program constants *)
ChunkSize == 5       \* chunks(5)
MissingResult == 9   \* the only result code a MissingItem may carry

Ids == 1..NumIds
HubIds == {1, 2}                 \* ids whose child list is chosen freely
LeafIds == Ids \ HubIds          \* ids without children
OtherResults == {1}              \* result codes other than MissingResult

Min(a, b) == IF a < b THEN a ELSE b

(* A response item: schemas.rs GetPublishedFileDetailsResponseItem *)
FileDetails(has, ch) ==
    [kind |-> "FileDetails", has_children |-> has, children |-> ch, result |-> 0]

MissingItem(res) ==
    [kind |-> "MissingItem", has_children |-> FALSE, children |-> {}, result |-> res]

ChildSets == {c \in SUBSET Ids : Cardinality(c) <= MaxChildren}

(* The catalogs the resolver is run against: hubs are FileDetails with a   *)
(* child list, the other ids are FileDetails without one, and the last id  *)
(* may also be a MissingItem (with result 9 or another code).              *)
LastItems ==
    {FileDetails(FALSE, {})} \cup {MissingItem(r) : r \in {MissingResult} \cup OtherResults}

Catalogs ==
    {[i \in Ids |-> IF i \in HubIds THEN FileDetails(TRUE, h[i])
                    ELSE IF i = NumIds THEN last
                    ELSE FileDetails(FALSE, {})] :
        h \in [HubIds -> ChildSets], last \in LastItems}

RootSets == {{1}, {1, 2}, Ids, {NumIds}}

----------------------------------------------------------------------------
(* Dependency resolver: fetch_workshop_details_with_dependencies *)

(* for chunk in &new_file_ids.iter().chunks(5): the iteration order of a   *)
(* HashSet is unspecified, so a chunk is any ChunkSize ids not yet yielded *)
(* (all of them when fewer are left).                                      *)
Chunks(rest) ==
    {c \in SUBSET rest : Cardinality(c) = Min(ChunkSize, Cardinality(rest))}

(* get_published_file_details panics on a MissingItem whose result is not 9 *)
BadDeserialisation(chunk) ==
    \E i \in chunk : meta[i].kind = "MissingItem" /\ meta[i].result # MissingResult

(* variant: the child ids are not checked against the cache *)
NewChildIdsUnfiltered(chunk, cached) ==
    UNION {meta[i].children : i \in {j \in chunk : meta[j].kind = "FileDetails"
                                                   /\ meta[j].has_children}}

(* the child ids of the FileDetails of this chunk that are not yet keys of *)
(* the cache (the cache does not hold this chunk's own entries yet)        *)
NewChildIds(chunk, cached) ==
    {c \in UNION {meta[i].children : i \in {j \in chunk : meta[j].kind = "FileDetails"
                                                          /\ meta[j].has_children}} :
        c \notin cached}

(* variant: only the first chunk of a frontier is fetched *)
RestDropped(rest, chunk) == {}

(* what the chunk iterator still has to yield after this chunk *)
RestAfter(rest, chunk) == rest \ chunk

Bump(cnt, chunk) ==
    [i \in Ids |-> IF i \in chunk THEN Min(cnt[i] + 1, FetchCap) ELSE cnt[i]]

ResolverInit ==
    /\ meta \in Catalogs
    /\ file_ids \in RootSets
    /\ cached_file_details = {}
    /\ new_file_ids = file_ids
    /\ remaining = {}
    /\ child_ids = {}
    /\ fetchCount = [i \in Ids |-> 0]
    /\ rpc = "loop"
    /\ batches = <<>>
    /\ in_flight = {}

(* loop head with an empty frontier: break and return the cache *)
LoopBreak ==
    /\ rpc = "loop"
    /\ new_file_ids = {}
    /\ rpc' = "done"
    /\ UNCHANGED <<meta, file_ids, cached_file_details, new_file_ids, remaining,
                   child_ids, fetchCount>>
    /\ UNCHANGED notResolverVars

(* loop head with a non-empty frontier: a fresh child_ids, chunking starts *)
RoundStart ==
    /\ rpc = "loop"
    /\ new_file_ids # {}
    /\ child_ids' = {}
    /\ remaining' = new_file_ids
    /\ rpc' = "chunks"
    /\ UNCHANGED <<meta, file_ids, cached_file_details, new_file_ids, fetchCount>>
    /\ UNCHANGED notResolverVars

(* one iteration of the for loop whose fetch succeeds; after the last      *)
(* chunk the frontier becomes child_ids and control is back at loop        *)
FetchChunk ==
    /\ rpc = "chunks"
    /\ \E chunk \in Chunks(remaining) :
        /\ ~ BadDeserialisation(chunk)
        /\ fetchCount' = Bump(fetchCount, chunk)
        /\ child_ids' = child_ids \cup NewChildIds(chunk, cached_file_details)
        /\ cached_file_details' = cached_file_details \cup chunk
        /\ remaining' = RestAfter(remaining, chunk)
        /\ IF remaining' = {}
           THEN new_file_ids' = child_ids' /\ rpc' = "loop"
           ELSE UNCHANGED <<new_file_ids, rpc>>
    /\ UNCHANGED <<meta, file_ids>>
    /\ UNCHANGED notResolverVars

(* the request is sent and the transport fails: the ? returns the error *)
FetchFails ==
    /\ rpc = "chunks"
    /\ \E chunk \in Chunks(remaining) :
        /\ fetchCount' = Bump(fetchCount, chunk)
        /\ rpc' = "failed"
    /\ UNCHANGED <<meta, file_ids, cached_file_details, new_file_ids, remaining, child_ids>>
    /\ UNCHANGED notResolverVars

(* the response holds a MissingItem with another result code: panic *)
FetchPanics ==
    /\ rpc = "chunks"
    /\ \E chunk \in Chunks(remaining) :
        /\ BadDeserialisation(chunk)
        /\ fetchCount' = Bump(fetchCount, chunk)
        /\ rpc' = "panicked"
    /\ UNCHANGED <<meta, file_ids, cached_file_details, new_file_ids, remaining, child_ids>>
    /\ UNCHANGED notResolverVars

ResolverNext == LoopBreak \/ RoundStart \/ FetchChunk \/ FetchFails \/ FetchPanics

(* The same for loop at the grain of call and return: the chunk iterator   *)
(* yields a chunk, get_published_file_details(chunk) is called, and the    *)
(* .await suspends the loop until that call has returned.                  *)

(* variant: the next call starts without awaiting the previous one *)
FetchCallEager ==
    /\ rpc = "chunks"
    /\ remaining # {}
    /\ \E chunk \in Chunks(remaining) :
        /\ batches' = Append(batches, chunk)
        /\ in_flight' = in_flight \cup {chunk}
        /\ remaining' = RestAfter(remaining, chunk)
        /\ fetchCount' = Bump(fetchCount, chunk)
    /\ UNCHANGED <<meta, file_ids, cached_file_details, new_file_ids, child_ids, rpc>>
    /\ UNCHANGED notCallVars

(* the iterator yields the next chunk and the call for it starts; the loop *)
(* reaches this point only after the previous .await has completed         *)
FetchCall ==
    /\ rpc = "chunks"
    /\ remaining # {}
    /\ in_flight = {}
    /\ \E chunk \in Chunks(remaining) :
        /\ batches' = Append(batches, chunk)
        /\ in_flight' = in_flight \cup {chunk}
        /\ remaining' = RestAfter(remaining, chunk)
        /\ fetchCount' = Bump(fetchCount, chunk)
    /\ UNCHANGED <<meta, file_ids, cached_file_details, new_file_ids, child_ids, rpc>>
    /\ UNCHANGED notCallVars

(* the call returns Ok: its details are merged; after the last chunk the   *)
(* frontier becomes child_ids and control is back at loop                  *)
FetchReturns ==
    /\ rpc = "chunks"
    /\ \E chunk \in in_flight :
        /\ ~ BadDeserialisation(chunk)
        /\ child_ids' = child_ids \cup NewChildIds(chunk, cached_file_details)
        /\ cached_file_details' = cached_file_details \cup chunk
        /\ in_flight' = in_flight \ {chunk}
        /\ IF remaining = {} /\ in_flight' = {}
           THEN new_file_ids' = child_ids' /\ rpc' = "loop" /\ batches' = <<>>
           ELSE UNCHANGED <<new_file_ids, rpc, batches>>
    /\ UNCHANGED <<meta, file_ids, remaining, fetchCount>>
    /\ UNCHANGED notCallVars

(* the call returns Err: the ? returns it and the loop is abandoned *)
FetchReturnsErr ==
    /\ rpc = "chunks"
    /\ in_flight # {}
    /\ rpc' = "failed"
    /\ in_flight' = {}
    /\ UNCHANGED <<meta, file_ids, cached_file_details, new_file_ids, remaining,
                   child_ids, fetchCount, batches>>
    /\ UNCHANGED notCallVars

(* the response holds a MissingItem with another result code: panic *)
FetchReturnsPanic ==
    /\ rpc = "chunks"
    /\ \E chunk \in in_flight : BadDeserialisation(chunk)
    /\ rpc' = "panicked"
    /\ in_flight' = {}
    /\ UNCHANGED <<meta, file_ids, cached_file_details, new_file_ids, remaining,
                   child_ids, fetchCount, batches>>
    /\ UNCHANGED notCallVars

ResolverCallsNext ==
    LoopBreak \/ RoundStart \/ FetchCall \/ FetchReturns \/ FetchReturnsErr
        \/ FetchReturnsPanic

----------------------------------------------------------------------------
(* Process supervisor: WorkerProcess                                       *)
(* Bytes are "a", "b" (text), "s" (whitespace), "e" (one terminal escape   *)
(* sequence), "x" (a byte that is not valid UTF-8) and "n" (newline).      *)

MaxLines == 2        \* the helper emits at most this many lines

LineSet == {<<"a">>, <<"a", "b">>, <<"s", "b">>, <<"e">>, <<"x">>}
Scripts == UNION {[1..k -> LineSet] : k \in 0..MaxLines}
ExitCodes == {0, 3}  \* exit statuses the helper chooses; a kill gives KillCode
KillCode == 1        \* proc.exit(1)

RECURSIVE Bytes(_)
Bytes(ls) == IF ls = <<>> THEN <<>> ELSE Head(ls) \o <<"n">> \o Bytes(Tail(ls))

(* the lines of a byte sequence; bytes after the last newline are a line too *)
RECURSIVE SplitLines(_, _)
SplitLines(bs, cur) ==
    IF bs = <<>> THEN (IF cur = <<>> THEN <<>> ELSE <<cur>>)
    ELSE IF Head(bs) = "n" THEN <<cur>> \o SplitLines(Tail(bs), <<>>)
    ELSE SplitLines(Tail(bs), Append(cur, Head(bs)))

(* what the helper has written so far *)
Written == SubSeq(Bytes(emitted), 1, Len(Bytes(emitted)) - Len(todo))

HasNewline(p) == \E i \in 1..Len(p) : p[i] = "n"
FirstNewline(p) == CHOOSE i \in 1..Len(p) : p[i] = "n" /\ \A j \in 1..(i - 1) : p[j] # "n"

(* read_line appends to a String: bytes that are not UTF-8 give InvalidData *)
ValidUtf8(bs) == \A i \in 1..Len(bs) : bs[i] # "x"

IsNotEscape(c) == c # "e"
(* strip_ansi_escapes::strip *)
Strip(bs) == SelectSeq(bs, IsNotEscape)

IsSpace(c) == c \in {"s", "n"}
RECURSIVE TrimStart(_)
TrimStart(bs) == IF bs # <<>> /\ IsSpace(Head(bs)) THEN TrimStart(Tail(bs)) ELSE bs
RECURSIVE TrimEnd(_)
TrimEnd(bs) ==
    IF bs # <<>> /\ IsSpace(bs[Len(bs)]) THEN TrimEnd(SubSeq(bs, 1, Len(bs) - 1)) ELSE bs
(* str::trim *)
Trim(bs) == TrimEnd(TrimStart(bs))

(* the clean-up of one line read: strip, decode, trim *)
Clean(raw) == Trim(Strip(raw))

(* if !trimmed.is_empty() { let _ = lines_tx.send(trimmed); }              *)
(* the send is lost when the receiver has been dropped                     *)
Forward(chan, raw) ==
    IF Clean(raw) # <<>> /\ output \in {"some", "taken"} THEN Append(chan, Clean(raw)) ELSE chan

(* state right after WorkerProcess::spawn returned Ok *)
WorkerInit ==
    /\ emitted \in Scripts
    /\ todo = Bytes(emitted)
    /\ pipe = <<>>
    /\ pipeClosed = FALSE
    /\ proc = "running"
    /\ exitCode = 0
    /\ reader = "read"
    /\ interrupts = 0
    /\ interruptTx = TRUE
    /\ interruptSent = 0
    /\ killAttempted = FALSE
    /\ output = "some"
    /\ lines = <<>>
    /\ received = <<>>
    /\ consumer = "none"
    /\ handle = "live"
    /\ waitResult = [kind |-> "none", code |-> 0]
    /\ take_results = <<>>

(* ---- the helper and the pseudo-console (environment) ---- *)

HelperWrite ==
    /\ proc = "running"
    /\ todo # <<>>
    /\ pipe' = Append(pipe, Head(todo))
    /\ todo' = Tail(todo)
    /\ UNCHANGED <<emitted, pipeClosed, proc, exitCode, reader, interrupts, interruptTx,
                   interruptSent, killAttempted, output, lines, received, consumer,
                   handle, waitResult>>
    /\ UNCHANGED <<take_results, notWorkerVars>>

HelperExit ==
    /\ proc = "running"
    /\ todo = <<>>
    /\ \E c \in ExitCodes : exitCode' = c
    /\ proc' = "exited"
    /\ UNCHANGED <<emitted, todo, pipe, pipeClosed, reader, interrupts, interruptTx,
                   interruptSent, killAttempted, output, lines, received, consumer,
                   handle, waitResult>>
    /\ UNCHANGED <<take_results, notWorkerVars>>

(* once the process is gone the output side may report end of stream *)
PipeCloses ==
    /\ proc = "exited"
    /\ ~ pipeClosed
    /\ pipeClosed' = TRUE
    /\ UNCHANGED <<emitted, todo, pipe, proc, exitCode, reader, interrupts, interruptTx,
                   interruptSent, killAttempted, output, lines, received, consumer,
                   handle, waitResult>>
    /\ UNCHANGED <<take_results, notWorkerVars>>

(* ---- read_jh: one read_line, then one try_recv on the interrupt ---- *)

(* Ok(_): a complete line is in the buffer *)
ReadLine ==
    /\ reader = "read"
    /\ HasNewline(pipe)
    /\ LET k == FirstNewline(pipe)
           raw == SubSeq(pipe, 1, k)
       IN /\ ValidUtf8(raw)
          /\ pipe' = SubSeq(pipe, k + 1, Len(pipe))
          /\ lines' = Forward(lines, raw)
          /\ reader' = "check"
    /\ UNCHANGED <<emitted, todo, pipeClosed, proc, exitCode, interrupts, interruptTx,
                   interruptSent, killAttempted, output, received, consumer, handle,
                   waitResult>>
    /\ UNCHANGED <<take_results, notWorkerVars>>

(* Err(InvalidData): the line read is not UTF-8; the loop breaks *)
ReadInvalid ==
    /\ reader = "read"
    /\ HasNewline(pipe)
    /\ LET k == FirstNewline(pipe)
           raw == SubSeq(pipe, 1, k)
       IN /\ ~ ValidUtf8(raw)
          /\ pipe' = SubSeq(pipe, k + 1, Len(pipe))
          /\ reader' = "exited"
    /\ UNCHANGED <<emitted, todo, pipeClosed, proc, exitCode, interrupts, interruptTx,
                   interruptSent, killAttempted, output, lines, received, consumer,
                   handle, waitResult>>
    /\ UNCHANGED <<take_results, notWorkerVars>>

(* Err(WouldBlock): no newline yet and the stream is open. read_line has   *)
(* consumed what was there into buf, and buf is a fresh String in the next *)
(* iteration; the thread sleeps and goes on to the interrupt check.        *)
ReadWouldBlock ==
    /\ reader = "read"
    /\ ~ HasNewline(pipe)
    /\ ~ pipeClosed
    /\ pipe' = <<>>
    /\ reader' = "check"
    /\ UNCHANGED <<emitted, todo, pipeClosed, proc, exitCode, interrupts, interruptTx,
                   interruptSent, killAttempted, output, lines, received, consumer,
                   handle, waitResult>>
    /\ UNCHANGED <<take_results, notWorkerVars>>

(* no newline and the stream has ended: Ok(0) or an error break the loop;  *)
(* a last line without newline is returned as Ok(_) at end of stream       *)
ReadAtEnd ==
    /\ reader = "read"
    /\ ~ HasNewline(pipe)
    /\ pipeClosed
    /\ pipe' = <<>>
    /\ \/ /\ pipe # <<>> /\ ValidUtf8(pipe)
          /\ lines' = Forward(lines, pipe)
          /\ reader' = "check"
       \/ /\ reader' = "exited"
          /\ UNCHANGED lines
    /\ UNCHANGED <<emitted, todo, pipeClosed, proc, exitCode, interrupts, interruptTx,
                   interruptSent, killAttempted, output, received, consumer, handle,
                   waitResult>>
    /\ UNCHANGED <<take_results, notWorkerVars>>

(* variant: the result of try_recv is not looked at *)
ReaderCheckNeverBreaks ==
    /\ reader = "check"
    /\ interrupts' = IF interrupts > 0 THEN interrupts - 1 ELSE interrupts
    /\ reader' = "read"
    /\ UNCHANGED <<emitted, todo, pipe, pipeClosed, proc, exitCode, interruptTx,
                   interruptSent, killAttempted, output, lines, received, consumer,
                   handle, waitResult>>
    /\ UNCHANGED <<take_results, notWorkerVars>>

(* match interrupt_rx.try_recv() { Err(Empty) => (), _ => break } *)
ReaderCheck ==
    /\ reader = "check"
    /\ IF interrupts > 0
       THEN interrupts' = interrupts - 1 /\ reader' = "exited"
       ELSE /\ UNCHANGED interrupts
            /\ reader' = IF interruptTx THEN "read" ELSE "exited"
    /\ UNCHANGED <<emitted, todo, pipe, pipeClosed, proc, exitCode, interruptTx,
                   interruptSent, killAttempted, output, lines, received, consumer,
                   handle, waitResult>>
    /\ UNCHANGED <<take_results, notWorkerVars>>

(* ---- the logger thread of the caller: for line in lines { info!(..) } ---- *)

ConsumerRecv ==
    /\ consumer = "running"
    /\ lines # <<>>
    /\ received' = Append(received, Head(lines))
    /\ lines' = Tail(lines)
    /\ UNCHANGED <<emitted, todo, pipe, pipeClosed, proc, exitCode, reader, interrupts,
                   interruptTx, interruptSent, killAttempted, output, consumer, handle,
                   waitResult>>
    /\ UNCHANGED <<take_results, notWorkerVars>>

(* the iterator ends when the channel is empty and lines_tx is dropped *)
ConsumerEnd ==
    /\ consumer = "running"
    /\ lines = <<>>
    /\ reader = "exited"
    /\ consumer' = "done"
    /\ UNCHANGED <<emitted, todo, pipe, pipeClosed, proc, exitCode, reader, interrupts,
                   interruptTx, interruptSent, killAttempted, output, lines, received,
                   handle, waitResult>>
    /\ UNCHANGED <<take_results, notWorkerVars>>

(* ---- the owner of the handle ---- *)

(* a send on _read_interrupt: it is lost when read_jh has exited *)
SendInterrupt(n) == IF reader = "exited" THEN n ELSE n + 1

(* take_output, and the caller's thread that drains the receiver *)
TakeOutput ==
    /\ handle = "live"
    /\ output = "some"
    /\ output' = "taken"
    /\ consumer' = "running"
    /\ take_results' = Append(take_results, "receiver")
    /\ UNCHANGED <<emitted, todo, pipe, pipeClosed, proc, exitCode, reader, interrupts,
                   interruptTx, interruptSent, killAttempted, lines, received, handle,
                   waitResult>>
    /\ UNCHANGED notWorkerVars

(* variant: a later call hands out a receiver again *)
TakeOutputAgainReturns ==
    /\ handle \in {"live", "returned"}
    /\ output = "taken"
    /\ take_results' = Append(take_results, "receiver")
    /\ UNCHANGED workerVars
    /\ UNCHANGED notWorkerVars

(* take_output once more: self.output.take() is None and expect panics;    *)
(* the owner does nothing further but unwind (which drops the handle)      *)
TakeOutputAgain ==
    /\ handle \in {"live", "returned"}
    /\ output = "taken"
    /\ take_results' = Append(take_results, "panic")
    /\ handle' = "panicked"
    /\ UNCHANGED <<emitted, todo, pipe, pipeClosed, proc, exitCode, reader, interrupts,
                   interruptTx, interruptSent, killAttempted, output, lines, received,
                   consumer, waitResult>>
    /\ UNCHANGED notWorkerVars

NoResult == [kind |-> "none", code |-> 0]
OkResult == [kind |-> "Ok", code |-> 0]
ConptyError == [kind |-> "Conpty", code |-> 0]
(* error.rs: Error::WorkerExitCode(u32) *)
WorkerExitCode(code) == [kind |-> "WorkerExitCode", code |-> code]

(* variant: the exit status is not looked at *)
WaitResultAlwaysOk(code) == OkResult

(* if exit == 0 { Ok(()) } else { Err(WorkerExitCode(exit)) } *)
WaitResultOf(code) == IF code = 0 THEN OkResult ELSE WorkerExitCode(code)

(* wait: blocks until the process has exited, then sends the interrupt *)
Wait ==
    /\ handle = "live"
    /\ proc = "exited"
    /\ interrupts' = SendInterrupt(interrupts)
    /\ interruptSent' = interruptSent + 1
    /\ waitResult' = WaitResultOf(exitCode)
    /\ handle' = "returned"
    /\ UNCHANGED <<emitted, todo, pipe, pipeClosed, proc, exitCode, reader, interruptTx,
                   killAttempted, output, lines, received, consumer>>
    /\ UNCHANGED <<take_results, notWorkerVars>>

(* self.proc.wait(None)? fails: wait returns the error, nothing is sent *)
WaitFails ==
    /\ handle = "live"
    /\ waitResult' = ConptyError
    /\ handle' = "returned"
    /\ UNCHANGED <<emitted, todo, pipe, pipeClosed, proc, exitCode, reader, interrupts,
                   interruptTx, interruptSent, killAttempted, output, lines, received,
                   consumer>>
    /\ UNCHANGED <<take_results, notWorkerVars>>

(* variant: the fields are dropped, without the send and the proc.exit(1) *)
DropFieldsOnly ==
    /\ handle \in {"live", "returned", "panicked"}
    /\ interruptTx' = FALSE
    /\ output' = IF output = "some" THEN "dropped" ELSE output
    /\ lines' = IF output = "some" THEN <<>> ELSE lines
    /\ handle' = "dropped"
    /\ UNCHANGED <<emitted, todo, pipe, pipeClosed, proc, exitCode, reader, interrupts,
                   interruptSent, killAttempted, received, consumer, waitResult>>
    /\ UNCHANGED <<take_results, notWorkerVars>>

(* Drop for WorkerProcess, then the drop of its fields *)
Drop ==
    /\ handle \in {"live", "returned", "panicked"}
    /\ interrupts' = SendInterrupt(interrupts)
    /\ interruptSent' = interruptSent + 1
    /\ killAttempted' = TRUE
    /\ IF proc = "running"
       THEN /\ proc' = "exited"
            /\ exitCode' = KillCode
            /\ todo' = <<>>
            /\ emitted' = SplitLines(Written, <<>>)   \* the rest is never emitted
       ELSE UNCHANGED <<proc, exitCode, todo, emitted>>
    /\ interruptTx' = FALSE
    /\ output' = IF output = "some" THEN "dropped" ELSE output
    /\ lines' = IF output = "some" THEN <<>> ELSE lines
    /\ handle' = "dropped"
    /\ UNCHANGED <<pipe, pipeClosed, reader, received, consumer, waitResult>>
    /\ UNCHANGED <<take_results, notWorkerVars>>

WorkerNext ==
    \/ HelperWrite \/ HelperExit \/ PipeCloses
    \/ ReadLine \/ ReadInvalid \/ ReadWouldBlock \/ ReadAtEnd \/ ReaderCheck
    \/ ConsumerRecv \/ ConsumerEnd
    \/ TakeOutput \/ Wait \/ WaitFails \/ Drop

(* an owner that may also call take_output more than once *)
WorkerTakeNext ==
    \/ HelperWrite \/ HelperExit \/ PipeCloses
    \/ ReadLine \/ ReadInvalid \/ ReadWouldBlock \/ ReadAtEnd \/ ReaderCheck
    \/ ConsumerRecv \/ ConsumerEnd
    \/ TakeOutput \/ TakeOutputAgain \/ Wait \/ WaitFails \/ Drop

----------------------------------------------------------------------------
(* Import reconciliation (main, CliCommand::Import) and download           *)

MaxEntries == 4      \* a manifest has at most this many entries

Checksums == {"X", "Y"}
NoChecksum == "none"             \* Option::None of Mod.checksum
Inputs == {"", "y", "Y", "n"}    \* what the user types at the prompt, trimmed

(* manifest entry i has id i; names are fixed per id *)
NameOf(i) == IF i = 1 THEN "b" ELSE IF i = 2 THEN "A" ELSE "none"
Mod(i, cs) == [id |-> i, name |-> NameOf(i), checksum |-> cs]

Manifests ==
    UNION {{[i \in 1..n |-> Mod(i, cs[i])] : cs \in [1..n -> {NoChecksum, "X"}]} :
           n \in 0..MaxEntries}

(* calculate_local_checksum: Some(checksum) of the folder when it is a     *)
(* directory, None otherwise                                               *)
LocalChecksum(loc) == IF loc \in {"absent", "file"} THEN NoChecksum ELSE loc

NoComparison == <<"No comparison checksum">>
NoLocalVersion == <<"No local version">>
(* format!("Checksum mismatch - {} local <=> import {}", local_checksum, checksum) *)
MismatchRationale(local_checksum, checksum) ==
    <<"Checksum mismatch - ", local_checksum, " local <=> import ", checksum>>

(* variant: any local copy counts as a match *)
ImportDecisionSkipIfPresent(entry, loc) ==
    IF entry.checksum = NoChecksum
    THEN [action |-> "download", rationale |-> NoComparison]
    ELSE IF LocalChecksum(loc) = NoChecksum
    THEN [action |-> "download", rationale |-> NoLocalVersion]
    ELSE [action |-> "skip", rationale |-> <<>>]

(* the body of the diff loop for one manifest entry *)
ImportDecision(entry, loc) ==
    IF entry.checksum = NoChecksum
    THEN [action |-> "download", rationale |-> NoComparison]
    ELSE IF LocalChecksum(loc) = NoChecksum
    THEN [action |-> "download", rationale |-> NoLocalVersion]
    ELSE IF LocalChecksum(loc) = entry.checksum
    THEN [action |-> "skip", rationale |-> <<>>]
    ELSE [action |-> "download",
          rationale |-> MismatchRationale(LocalChecksum(loc), entry.checksum)]

(* if !input.trim().is_empty() && input.trim().to_lowercase() != "y" { abort } *)
ToLower(str) ==
    CASE str = "Y" -> "y"
      [] str = "A" -> "a"
      [] str = "C" -> "c"
      [] OTHER -> str
Affirmative(input) == ~ (input # "" /\ ToLower(input) # "y")

(* get_collection_dir: "create if not exist" *)
EnsureCollectionDir(c) == IF c = "missing" THEN "created" ELSE c

NoCopy == [id |-> 0, before |-> "none", source |-> "none", ok |-> FALSE, err |-> "none"]

(* variant: the destination is removed before the output directory is      *)
(* looked at                                                               *)
CopyDownloadedRemovesFirst(source, before) ==
    IF source = "absent"
    THEN {[ok |-> FALSE, after |-> "absent", err |-> "NotFound"]}
    ELSE {[ok |-> TRUE, after |-> source, err |-> "none"]}
         \cup {[ok |-> FALSE, after |-> a, err |-> "Io"] : a \in {before, "absent", "partial"}}

(* copy_downloaded_workshop_item: the ways the call can end, given the     *)
(* helper's output directory (source, "absent" when it is no directory)    *)
(* and the destination before the call.  The destination is removed first  *)
(* and copied afterwards; either step can fail, part-way too.              *)
(* The error is NotFound for a missing output directory, and otherwise the *)
(* error of the removal or of the copy ("Io").                             *)
CopyDownloaded(source, before) ==
    IF source = "absent"
    THEN {[ok |-> FALSE, after |-> before, err |-> "NotFound"]}
    ELSE {[ok |-> TRUE, after |-> source, err |-> "none"]}
         \cup {[ok |-> FALSE, after |-> a, err |-> "Io"] : a \in {before, "absent", "partial"}}

(* the variables of the update command while another command runs *)
UpdateUnused ==
    /\ workshop_details = <<>>
    /\ local_created = <<>>
    /\ unclassified = {}
    /\ ids_with_error = <<>>
    /\ ids_to_download = <<>>
    /\ ids_to_ignore = <<>>

(* the manifest has been read and parsed *)
ImportInit ==
    /\ mode = "import"
    /\ manifest \in Manifests
    /\ local \in [1..Len(manifest) -> {"absent", "X", "Y"}]
    /\ collection_dir \in {"missing", "present"}
    /\ collection_dir = "missing" => \A i \in DOMAIN local : local[i] = "absent"
    /\ last_copy = NoCopy
    /\ answer = "none"
    /\ UpdateUnused
    /\ bpc = "diff"
    /\ next_entry = 1
    /\ entries_to_download = <<>>
    /\ skipped = {}
    /\ ignore_checksum = FALSE
    /\ next_download = 1
    /\ errors = 0
    /\ spawned = {}
    /\ spawnAttempts = {}
    /\ waitFailed = {}
    /\ copied = {}
    /\ verified = {}
    /\ mismatched = {}
    /\ reported = -1

(* one iteration of "for mut entry in manifest.mods" *)
DiffEntry ==
    /\ bpc = "diff"
    /\ next_entry <= Len(manifest)
    /\ LET entry == manifest[next_entry]
           d == ImportDecision(entry, local[entry.id])
       IN IF d.action = "skip"
          THEN /\ skipped' = skipped \cup {next_entry}
               /\ UNCHANGED entries_to_download
          ELSE /\ entries_to_download' = Append(entries_to_download, <<entry, d.rationale>>)
               /\ UNCHANGED skipped
    /\ next_entry' = next_entry + 1
    /\ collection_dir' = IF manifest[next_entry].checksum # NoChecksum
                         THEN EnsureCollectionDir(collection_dir)
                         ELSE collection_dir
    /\ UNCHANGED <<manifest, local, bpc, ignore_checksum, next_download, errors, spawned,
                   spawnAttempts, waitFailed, copied, verified, mismatched, reported>>
    /\ UNCHANGED <<last_copy, updateVars>>
    /\ UNCHANGED <<answer, notBatchVars>>

(* calculate_local_checksum(&entry.id)? returns an error: the command ends *)
DiffFails ==
    /\ bpc = "diff"
    /\ next_entry <= Len(manifest)
    /\ manifest[next_entry].checksum # NoChecksum
    /\ bpc' = "failed"
    /\ UNCHANGED <<manifest, local, next_entry, entries_to_download, skipped,
                   ignore_checksum, next_download, errors, spawned, spawnAttempts,
                   waitFailed, copied, verified, mismatched, reported>>
    /\ UNCHANGED <<folderVars, updateVars>>
    /\ UNCHANGED <<answer, notBatchVars>>

(* after the loop: nothing to do, or the schedule is shown for confirmation *)
DiffEnd ==
    /\ bpc = "diff"
    /\ next_entry > Len(manifest)
    /\ bpc' = IF entries_to_download = <<>> THEN "done" ELSE "confirm"
    /\ UNCHANGED <<manifest, local, next_entry, entries_to_download, skipped,
                   ignore_checksum, next_download, errors, spawned, spawnAttempts,
                   waitFailed, copied, verified, mismatched, reported>>
    /\ UNCHANGED <<folderVars, updateVars>>
    /\ UNCHANGED <<answer, notBatchVars>>

(* variant: the download starts whatever was typed *)
ConfirmIgnored ==
    /\ bpc = "confirm"
    /\ \E input \in Inputs :
        /\ bpc' = "download"
        /\ answer' = IF Affirmative(input) THEN "yes" ELSE "no"
    /\ ignore_checksum' = FALSE
    /\ UNCHANGED <<manifest, local, next_entry, entries_to_download, skipped,
                   next_download, errors, spawned, spawnAttempts, waitFailed, copied,
                   verified, mismatched, reported>>
    /\ UNCHANGED <<folderVars, updateVars>>
    /\ UNCHANGED notBatchVars

(* Confirm? [Y/n] *)
Confirm ==
    /\ bpc = "confirm"
    /\ \E input \in Inputs :
        /\ bpc' = IF Affirmative(input) THEN "download" ELSE "done"
        /\ answer' = IF Affirmative(input) THEN "yes" ELSE "no"
    /\ ignore_checksum' = FALSE
    /\ UNCHANGED <<manifest, local, next_entry, entries_to_download, skipped,
                   next_download, errors, spawned, spawnAttempts, waitFailed, copied,
                   verified, mismatched, reported>>
    /\ UNCHANGED <<folderVars, updateVars>>
    /\ UNCHANGED notBatchVars

(* ---- download(entries_to_download, ignore_checksum): one action per way *)
(* an iteration of its loop can go                                         *)

Schedule == [i \in 1..Len(entries_to_download) |-> entries_to_download[i][1]]

(* what wait can return: see WorkerProcess *)
WaitOutcomes == {WaitResultOf(c) : c \in ExitCodes} \cup {ConptyError}

(* download_workshop_item(&entry.id)? fails (not initialised, or the spawn *)
(* itself): the error is returned from download                            *)
DownloadSpawnFails ==
    /\ bpc = "download"
    /\ next_download <= Len(Schedule)
    /\ spawnAttempts' = spawnAttempts \cup {next_download}
    /\ bpc' = "failed"
    /\ UNCHANGED <<manifest, local, next_entry, entries_to_download, skipped,
                   ignore_checksum, next_download, errors, spawned, waitFailed, copied,
                   verified, mismatched, reported>>
    /\ UNCHANGED <<folderVars, updateVars>>
    /\ UNCHANGED <<answer, notBatchVars>>

(* variant: the continue is missing, the entry is copied all the same *)
DownloadWaitFailsNoContinue ==
    /\ bpc = "download"
    /\ next_download <= Len(Schedule)
    /\ \E res \in WaitOutcomes : res.kind # "Ok"
    /\ spawnAttempts' = spawnAttempts \cup {next_download}
    /\ spawned' = spawned \cup {next_download}
    /\ waitFailed' = waitFailed \cup {next_download}
    /\ errors' = errors + 1
    /\ \E content \in Checksums :
        local' = [local EXCEPT ![Schedule[next_download].id] = content]
    /\ copied' = copied \cup {next_download}
    /\ next_download' = next_download + 1
    /\ UNCHANGED <<manifest, bpc, next_entry, entries_to_download, skipped,
                   ignore_checksum, verified, mismatched, reported>>
    /\ UNCHANGED <<folderVars, updateVars>>
    /\ UNCHANGED <<answer, notBatchVars>>

(* if let Err(e) = download.wait() { errors += 1; continue; } *)
DownloadWaitFails ==
    /\ bpc = "download"
    /\ next_download <= Len(Schedule)
    /\ \E res \in WaitOutcomes : res.kind # "Ok"
    /\ spawnAttempts' = spawnAttempts \cup {next_download}
    /\ spawned' = spawned \cup {next_download}
    /\ waitFailed' = waitFailed \cup {next_download}
    /\ errors' = errors + 1
    /\ next_download' = next_download + 1
    /\ UNCHANGED <<manifest, local, bpc, next_entry, entries_to_download, skipped,
                   ignore_checksum, copied, verified, mismatched, reported>>
    /\ UNCHANGED <<folderVars, updateVars>>
    /\ UNCHANGED <<answer, notBatchVars>>

(* copy_downloaded_workshop_item(&entry.id)? fails: the helper's output    *)
(* directory is missing (destination untouched), or the removal or the     *)
(* copy fails (destination as before, gone, or partly written)             *)
DownloadCopyFails ==
    /\ bpc = "download"
    /\ next_download <= Len(Schedule)
    /\ \E res \in WaitOutcomes : res.kind = "Ok"
    /\ spawnAttempts' = spawnAttempts \cup {next_download}
    /\ spawned' = spawned \cup {next_download}
    /\ LET id == Schedule[next_download].id
       IN \E source \in Checksums \cup {"absent"} :
          \E o \in CopyDownloaded(source, local[id]) :
            /\ ~ o.ok
            /\ local' = [local EXCEPT ![id] = o.after]
            /\ last_copy' = [id |-> id, before |-> local[id], source |-> source,
                             ok |-> FALSE, err |-> o.err]
            /\ collection_dir' = IF source = "absent" THEN collection_dir
                                 ELSE EnsureCollectionDir(collection_dir)
    /\ bpc' = "failed"
    /\ UNCHANGED <<manifest, next_entry, entries_to_download, skipped, ignore_checksum,
                   next_download, errors, waitFailed, copied, verified, mismatched,
                   reported>>
    /\ UNCHANGED updateVars
    /\ UNCHANGED <<answer, notBatchVars>>

(* variant: a missing expected checksum counts as a difference *)
ChecksumErrorStrict(expected, recomputed) == recomputed # expected

(* if let Some(import_cs) = entry.checksum { if checksum == import_cs     *)
(* { .. } else { errors += 1 } }                                           *)
ChecksumError(expected, recomputed) ==
    expected # NoChecksum /\ recomputed # expected

(* the helper succeeds, the content is copied and, unless ignore_checksum, *)
(* its checksum is recomputed and compared with the expected one           *)
DownloadCompletes ==
    /\ bpc = "download"
    /\ next_download <= Len(Schedule)
    /\ \E res \in WaitOutcomes : res.kind = "Ok"
    /\ spawnAttempts' = spawnAttempts \cup {next_download}
    /\ spawned' = spawned \cup {next_download}
    /\ copied' = copied \cup {next_download}
    /\ LET entry == Schedule[next_download]
       IN \E content \in Checksums :
          \E o \in CopyDownloaded(content, local[entry.id]) :
            /\ o.ok
            /\ local' = [local EXCEPT ![entry.id] = o.after]
            /\ last_copy' = [id |-> entry.id, before |-> local[entry.id],
                             source |-> content, ok |-> TRUE, err |-> o.err]
            /\ collection_dir' = EnsureCollectionDir(collection_dir)
            /\ IF ignore_checksum
               THEN UNCHANGED <<verified, mismatched, errors>>
               ELSE /\ verified' = verified \cup {next_download}
                    /\ IF ChecksumError(entry.checksum, LocalChecksum(content))
                       THEN /\ mismatched' = mismatched \cup {next_download}
                            /\ errors' = errors + 1
                       ELSE UNCHANGED <<mismatched, errors>>
    /\ next_download' = next_download + 1
    /\ UNCHANGED <<manifest, bpc, next_entry, entries_to_download, skipped,
                   ignore_checksum, waitFailed, reported>>
    /\ UNCHANGED updateVars
    /\ UNCHANGED <<answer, notBatchVars>>

(* variant: a non-zero error count is returned as a failure *)
DownloadEndFailsOnErrors ==
    /\ bpc = "download"
    /\ next_download > Len(Schedule)
    /\ reported' = errors
    /\ bpc' = IF errors = 0 THEN "done" ELSE "failed"
    /\ UNCHANGED <<manifest, local, next_entry, entries_to_download, skipped,
                   ignore_checksum, next_download, errors, spawned, spawnAttempts,
                   waitFailed, copied, verified, mismatched>>
    /\ UNCHANGED <<folderVars, updateVars>>
    /\ UNCHANGED <<answer, notBatchVars>>

(* the loop is over: "Done" or "Done with {} errors", and Ok(()) *)
DownloadEnd ==
    /\ bpc = "download"
    /\ next_download > Len(Schedule)
    /\ reported' = errors
    /\ bpc' = "done"
    /\ UNCHANGED <<manifest, local, next_entry, entries_to_download, skipped,
                   ignore_checksum, next_download, errors, spawned, spawnAttempts,
                   waitFailed, copied, verified, mismatched>>
    /\ UNCHANGED <<folderVars, updateVars>>
    /\ UNCHANGED <<answer, notBatchVars>>

ImportNext ==
    \/ DiffEntry \/ DiffFails \/ DiffEnd \/ Confirm
    \/ DownloadSpawnFails \/ DownloadWaitFails \/ DownloadCopyFails
    \/ DownloadCompletes \/ DownloadEnd

----------------------------------------------------------------------------
(* Export (main, CliCommand::Export), followed by an import of the         *)
(* manifest it wrote against the same collection                           *)

(* folders of the collection are named 0..MaxEntries; the name OddName is  *)
(* not valid Unicode, and LossyName is that name with the replacement      *)
(* character in place of what could not be decoded                         *)
FolderNames == 0..MaxEntries
OddName == MaxEntries
LossyName == 0

(* de.file_name().to_string_lossy().to_string() *)
ToStringLossy(n) == IF n = OddName THEN LossyName ELSE n

(* get_local_descriptors: the keys of the map, for the set of folders that *)
(* hold a readable descriptor.mod (two folders can give the same key)      *)
DescriptorKeys(described) == {ToStringLossy(n) : n \in described}

(* variant: the entry is written without a checksum *)
ExportModNoChecksum(id, loc) == Mod(id, NoChecksum)

(* Mod { id, name, checksum: Some(calculate_local_checksum(id)?.expect(..)) } *)
ExportMod(id, loc) == Mod(id, LocalChecksum(loc[id]))

(* mods.sort_unstable_by_key(|m| m.id.to_lowercase()): the keys are        *)
(* distinct, so the order is the order of the ids                          *)
RECURSIVE SortedById(_, _)
SortedById(keys, loc) ==
    IF keys = {} THEN <<>>
    ELSE LET m == CHOOSE k \in keys : \A j \in keys : k <= j
         IN <<ExportMod(m, loc)>> \o SortedById(keys \ {m}, loc)

(* the collection before the export command runs *)
ExportInit ==
    /\ mode = "export"
    /\ manifest = <<>>
    /\ local \in [FolderNames -> {"absent", "X", "Y"}]
    /\ collection_dir \in {"missing", "present"}
    /\ collection_dir = "missing" => \A i \in DOMAIN local : local[i] = "absent"
    /\ last_copy = NoCopy
    /\ answer = "none"
    /\ UpdateUnused
    /\ bpc = "export"
    /\ next_entry = 1
    /\ entries_to_download = <<>>
    /\ skipped = {}
    /\ ignore_checksum = FALSE
    /\ next_download = 1
    /\ errors = 0
    /\ spawned = {}
    /\ spawnAttempts = {}
    /\ waitFailed = {}
    /\ copied = {}
    /\ verified = {}
    /\ mismatched = {}
    /\ reported = -1

exportFrame ==
    /\ UNCHANGED <<local, next_entry, entries_to_download, skipped, ignore_checksum,
                   next_download, errors, spawned, spawnAttempts, waitFailed, copied,
                   verified, mismatched, reported>>
    /\ UNCHANGED <<last_copy, workshop_details, local_created, unclassified,
                   ids_with_error, ids_to_download, ids_to_ignore>>
    /\ UNCHANGED <<answer, notBatchVars>>

(* the manifest is written; the import command then reads and parses it    *)
(* (serde writes and reads id, name and checksum as they are)              *)
ExportCompletes ==
    /\ bpc = "export"
    /\ \E described \in SUBSET {n \in FolderNames : LocalChecksum(local[n]) # NoChecksum} :
        /\ \A id \in DescriptorKeys(described) : LocalChecksum(local[id]) # NoChecksum
        /\ manifest' = SortedById(DescriptorKeys(described), local)
    /\ collection_dir' = EnsureCollectionDir(collection_dir)
    /\ mode' = "import"
    /\ bpc' = "diff"
    /\ exportFrame

(* a key of the map names no directory of the collection:                  *)
(* calculate_local_checksum gives None and expect("dir should exist")      *)
(* panics; no manifest is written                                          *)
ExportPanics ==
    /\ bpc = "export"
    /\ \E described \in SUBSET {n \in FolderNames : LocalChecksum(local[n]) # NoChecksum} :
        \E id \in DescriptorKeys(described) : LocalChecksum(local[id]) = NoChecksum
    /\ collection_dir' = EnsureCollectionDir(collection_dir)
    /\ bpc' = "panicked"
    /\ UNCHANGED <<manifest, mode>>
    /\ exportFrame

(* get_local_descriptors()?, calculate_local_checksum(id)? or the write of *)
(* the file returns an error: no manifest is written                       *)
ExportFails ==
    /\ bpc = "export"
    /\ bpc' = "failed"
    /\ UNCHANGED <<manifest, mode, collection_dir>>
    /\ exportFrame

RoundTripNext ==
    \/ ExportCompletes \/ ExportPanics \/ ExportFails
    \/ DiffEntry \/ DiffFails \/ DiffEnd

----------------------------------------------------------------------------
(* Update reconciliation (main, CliCommand::Update)                        *)

MaxUpdateIds == 3    \* the resolved closure has ids among 1..MaxUpdateIds

UpdateIds == 1..MaxUpdateIds
RemoteTimes == {0, 1, 2}         \* values of time_updated
LocalTime == 1                   \* creation time of a local folder
NoTime == -1                     \* Option::None of get_local_created_timestamp

(* titles are fixed per id; two of them differ by case only *)
TitleOf(i) == IF i = 1 THEN "b" ELSE IF i = 2 THEN "A" ELSE IF i = 3 THEN "a" ELSE "C"

(* PublishedFileDetails as the update command reads it *)
Details(i, t) == [kind |-> "FileDetails", title |-> TitleOf(i), time_updated |-> t]

(* what can be known about one id: its entry in the resolved map ("unknown" *)
(* when the id is not in the closure) and the creation time of its folder  *)
UpdateCases(i) ==
    {[item |-> [kind |-> "unknown"], created |-> NoTime],
     [item |-> MissingItem(MissingResult), created |-> LocalTime],
     [item |-> Details(i, LocalTime), created |-> NoTime]}
    \cup {[item |-> Details(i, t), created |-> LocalTime] : t \in RemoteTimes}

(* order of one-character strings as Rust compares them (by bytes) *)
ByteOf(str) ==
    CASE str = "A" -> 65
      [] str = "C" -> 67
      [] str = "a" -> 97
      [] str = "b" -> 98
      [] str = "c" -> 99
      [] OTHER -> 0

IsPermutation(p, seq) ==
    /\ Len(p) = Len(seq)
    /\ \A k \in 1..Len(seq) :
        Cardinality({j \in 1..Len(p) : p[j] = seq[k]}) =
        Cardinality({j \in 1..Len(seq) : seq[j] = seq[k]})

SetOf(seq) == {seq[k] : k \in 1..Len(seq)}

(* sort_unstable_by_key(|..| fd.title.to_lowercase()): every arrangement   *)
(* of the ids in which the keys do not decrease (equal keys in any order)  *)
SortedByTitle(seq) ==
    {p \in [1..Len(seq) -> SetOf(seq)] :
        /\ IsPermutation(p, seq)
        /\ \A k \in 1..(Len(p) - 1) :
            ByteOf(ToLower(TitleOf(p[k]))) <= ByteOf(ToLower(TitleOf(p[k + 1])))}

(* variant: an item is scheduled whenever a local folder exists *)
ClassifyIfPresent(item, created) ==
    IF item.kind = "MissingItem" THEN "error"
    ELSE IF created = NoTime THEN "download"
    ELSE "download"

(* the match of the classification loop for one (id, response) *)
Classify(item, created) ==
    IF item.kind = "MissingItem" THEN "error"
    ELSE IF created = NoTime THEN "download"
    ELSE IF item.time_updated > created THEN "download"
    ELSE "ignore"

(* massage into old mods format *)
UpdateMod(i) == [id |-> i, name |-> TitleOf(i), checksum |-> NoChecksum]

(* the command has been parsed; the local folders and the remote state    *)
(* are whatever they are                                                   *)
UpdateInit ==
    /\ mode = "update"
    /\ \E c \in [UpdateIds -> UNION {UpdateCases(i) : i \in UpdateIds}] :
        /\ \A i \in UpdateIds : c[i] \in UpdateCases(i)
        /\ workshop_details =
             [i \in {j \in UpdateIds : c[j].item.kind # "unknown"} |-> c[i].item]
        /\ local_created = [i \in UpdateIds |-> c[i].created]
        /\ local = [i \in UpdateIds |-> IF c[i].created = NoTime THEN "absent" ELSE "X"]
    /\ collection_dir \in {"present", "created"}
    /\ collection_dir = "created" => DOMAIN workshop_details = {}
    /\ last_copy = NoCopy
    /\ answer = "none"
    /\ unclassified = {}
    /\ ids_with_error = <<>>
    /\ ids_to_download = <<>>
    /\ ids_to_ignore = <<>>
    /\ manifest = <<>>
    /\ bpc = "resolve"
    /\ next_entry = 1
    /\ entries_to_download = <<>>
    /\ skipped = {}
    /\ ignore_checksum = FALSE
    /\ next_download = 1
    /\ errors = 0
    /\ spawned = {}
    /\ spawnAttempts = {}
    /\ waitFailed = {}
    /\ copied = {}
    /\ verified = {}
    /\ mismatched = {}
    /\ reported = -1

updateFrame == <<manifest, local, next_entry, entries_to_download, skipped,
                 ignore_checksum, next_download, errors, spawned, spawnAttempts,
                 waitFailed, copied, verified, mismatched, reported>>

(* get_local_descriptors()? and fetch_workshop_details_with_dependencies   *)
(* (..).await? have returned the map                                       *)
UpdateResolved ==
    /\ bpc = "resolve"
    /\ unclassified' = DOMAIN workshop_details
    /\ bpc' = "classify"
    /\ UNCHANGED <<mode, workshop_details, local_created, ids_with_error,
                   ids_to_download, ids_to_ignore>>
    /\ UNCHANGED <<updateFrame, folderVars>>
    /\ UNCHANGED <<answer, notBatchVars>>

(* one of the two returned an error: there is no map, the command ends *)
UpdateResolveFails ==
    /\ bpc = "resolve"
    /\ bpc' = "failed"
    /\ workshop_details' = <<>>
    /\ UNCHANGED <<mode, local_created, unclassified, ids_with_error,
                   ids_to_download, ids_to_ignore>>
    /\ UNCHANGED <<updateFrame, folderVars>>
    /\ UNCHANGED <<answer, notBatchVars>>

(* one iteration of "for (id, response) in workshop_details.iter()": the   *)
(* map yields its keys in an order of its own                              *)
ClassifyEntry ==
    /\ bpc = "classify"
    /\ \E id \in unclassified :
        /\ unclassified' = unclassified \ {id}
        /\ LET c == Classify(workshop_details[id], local_created[id])
           IN /\ ids_with_error' =
                   IF c = "error" THEN Append(ids_with_error, id) ELSE ids_with_error
              /\ ids_to_download' =
                   IF c = "download" THEN Append(ids_to_download, id) ELSE ids_to_download
              /\ ids_to_ignore' =
                   IF c = "ignore" THEN Append(ids_to_ignore, id) ELSE ids_to_ignore
    /\ UNCHANGED <<mode, workshop_details, local_created, bpc>>
    /\ UNCHANGED <<updateFrame, folderVars>>
    /\ UNCHANGED <<answer, notBatchVars>>

(* DateTime::from_timestamp(..).ok_or(..)? or get_local_created_timestamp  *)
(* (&id)? returns an error for a FileDetails entry: the command ends       *)
ClassifyFails ==
    /\ bpc = "classify"
    /\ \E id \in unclassified : workshop_details[id].kind = "FileDetails"
    /\ bpc' = "failed"
    /\ UNCHANGED <<updateFrame, folderVars, updateVars>>
    /\ UNCHANGED <<answer, notBatchVars>>

(* after the loop: nothing to download ends the command; otherwise both    *)
(* lists are sorted and shown for confirmation                             *)
ClassifyEnd ==
    /\ bpc = "classify"
    /\ unclassified = {}
    /\ IF ids_to_download = <<>>
       THEN /\ bpc' = "done"
            /\ UNCHANGED <<ids_to_download, ids_to_ignore>>
       ELSE /\ bpc' = "confirm_update"
            /\ ids_to_download' \in SortedByTitle(ids_to_download)
            /\ ids_to_ignore' \in SortedByTitle(ids_to_ignore)
    /\ UNCHANGED <<mode, workshop_details, local_created, unclassified, ids_with_error>>
    /\ UNCHANGED <<updateFrame, folderVars>>
    /\ UNCHANGED <<answer, notBatchVars>>

(* Confirm? [Y/n], then the ids are massaged into Mod entries and          *)
(* download(entries_to_download, true) is called                           *)
UpdateConfirm ==
    /\ bpc = "confirm_update"
    /\ \E input \in Inputs :
        IF Affirmative(input)
        THEN /\ bpc' = "download"
             /\ answer' = "yes"
             /\ entries_to_download' =
                  [k \in 1..Len(ids_to_download) |-> <<UpdateMod(ids_to_download[k]), <<>> >>]
             /\ ignore_checksum' = TRUE
        ELSE /\ bpc' = "done"
             /\ answer' = "no"
             /\ UNCHANGED <<entries_to_download, ignore_checksum>>
    /\ UNCHANGED <<manifest, local, next_entry, skipped, next_download, errors, spawned,
                   spawnAttempts, waitFailed, copied, verified, mismatched, reported>>
    /\ UNCHANGED <<folderVars, updateVars>>
    /\ UNCHANGED notBatchVars

UpdateNext ==
    \/ UpdateResolved \/ UpdateResolveFails
    \/ ClassifyEntry \/ ClassifyFails \/ ClassifyEnd \/ UpdateConfirm
    \/ DownloadSpawnFails \/ DownloadWaitFails \/ DownloadCopyFails
    \/ DownloadCompletes \/ DownloadEnd

(* either command *)
BatchNext ==
    \/ DiffEntry \/ DiffFails \/ DiffEnd \/ Confirm
    \/ UpdateResolved \/ UpdateResolveFails
    \/ ClassifyEntry \/ ClassifyFails \/ ClassifyEnd \/ UpdateConfirm
    \/ DownloadSpawnFails \/ DownloadWaitFails \/ DownloadCopyFails
    \/ DownloadCompletes \/ DownloadEnd

----------------------------------------------------------------------------
(* Checksum of a directory (command.rs, calculate_checksum)                *)

NumNames == 3        \* file names are 1..NumNames, ordered as their bytes are

Names == 1..NumNames
SubDir == 2                      \* the one name that may be a subdirectory
SubNames == {1, 3}               \* names of the files a subdirectory may hold
Contents == {"p", "q"}

(* a file below the directory: its relative path (a sequence of names),    *)
(* its content, and whether it can be opened and read                      *)
File(pth, c, r) == [path |-> pth, content |-> c, readable |-> r]

FileStates ==
    {[content |-> c, readable |-> TRUE] : c \in Contents}
    \cup {[content |-> "p", readable |-> FALSE]}

TopPaths == {<<n>> : n \in Names}
SubPaths == {<<SubDir, n>> : n \in SubNames}

(* a name is a file or a directory, not both *)
ValidPaths(P) == <<SubDir>> \in P => P \cap SubPaths = {}

PathSets == {P \in SUBSET (TopPaths \cup SubPaths) : ValidPaths(P)}

Trees ==
    UNION {{{File(pth, f[pth].content, f[pth].readable) : pth \in P} :
              f \in [P -> FileStates]} : P \in PathSets}

PathsOf(tr) == {f.path : f \in tr}

(* orders in which read_dir may hand out the names of a directory *)
Ascending == [i \in Names |-> i]
Descending == [i \in Names |-> NumNames + 1 - i]
Rotated == [i \in Names |-> (i % NumNames) + 1]
Enumerations == {Ascending, Descending, Rotated}

(* ring digest::Digest and base64: taken as injective *)
sha256digest(bytes) == [sha256 |-> bytes]
Base64(d) == [b64 |-> d]

(* the names directly below prefix *)
ChildNames(tr, prefix) ==
    {f.path[Len(prefix) + 1] :
        f \in {g \in tr : /\ Len(g.path) > Len(prefix)
                          /\ SubSeq(g.path, 1, Len(prefix)) = prefix}}

(* read_dir of prefix: its names as the file system lists them *)
ReadDir(tr, prefix, order) == SelectSeq(order, LAMBDA n : n \in ChildNames(tr, prefix))

RECURSIVE InsertByName(_, _)
InsertByName(n, sorted) ==
    IF sorted = <<>> THEN <<n>>
    ELSE IF n <= Head(sorted) THEN <<n>> \o sorted
    ELSE <<Head(sorted)>> \o InsertByName(n, Tail(sorted))

(* variant: the entries are taken in the order read_dir gives them *)
unsorted(names) == names

(* WalkDir::sort_by_file_name: the entries of one directory, by name *)
RECURSIVE sort_by_file_name(_)
sort_by_file_name(names) ==
    IF names = <<>> THEN <<>>
    ELSE InsertByName(Head(names), sort_by_file_name(Tail(names)))

(* WalkDir, depth first: the regular files in the order they are yielded *)
RECURSIVE Walk(_, _, _)
RECURSIVE WalkNames(_, _, _, _)
WalkNames(tr, prefix, names, order) ==
    IF names = <<>> THEN <<>>
    ELSE LET pth == Append(prefix, Head(names))
             here == IF pth \in PathsOf(tr)
                     THEN <<CHOOSE f \in tr : f.path = pth>>
                     ELSE Walk(tr, pth, order)
         IN here \o WalkNames(tr, prefix, Tail(names), order)

Walk(tr, prefix, order) ==
    WalkNames(tr, prefix, sort_by_file_name(ReadDir(tr, prefix, order)), order)

(* variant: a file that cannot be read counts as an empty file *)
DigestOfFileOrEmpty(f) == <<sha256digest(IF f.readable THEN f.content ELSE "")>>

(* the filter_map closure: Some(digest) of the content, or None with a     *)
(* warning when the file cannot be opened or read                          *)
DigestOfFile(f) == IF f.readable THEN <<sha256digest(f.content)>> ELSE <<>>

(* variant: only the first file is taken into account *)
AllDigestsFirstOnly(files) == IF files = <<>> THEN <<>> ELSE DigestOfFile(Head(files))

(* filter_map(..).fold(vec![], extend_from_slice): the digests one after   *)
(* the other (each has the same length, so the sequence can be read back)  *)
RECURSIVE AllDigests(_)
AllDigests(files) ==
    IF files = <<>> THEN <<>>
    ELSE DigestOfFile(Head(files)) \o AllDigests(Tail(files))

NoDigest == [kind |-> "none", digest |-> Base64(sha256digest(<<>>))]

(* a root that cannot be traversed makes WalkDir yield errors only, and    *)
(* "if let Ok(e) = e" drops them                                           *)
calculate_checksum(tr, ok, order) ==
    LET files == IF ok THEN Walk(tr, <<>>, order) ELSE <<>>
    IN [kind |-> "Ok", digest |-> Base64(sha256digest(AllDigests(files)))]

(* a directory, and the order in which its names are listed *)
ChecksumInit ==
    /\ tree \in Trees
    /\ root_ok \in BOOLEAN
    /\ enum_order \in Enumerations
    /\ ~ root_ok => enum_order = Ascending
    /\ returned = NoDigest
    /\ prev_returned = NoDigest
    /\ edit = "none"
    /\ cpc = "start"

(* calculate_checksum(dir), the first time and again after a change *)
CalculateChecksum ==
    /\ cpc \in {"start", "edited"}
    /\ returned' = calculate_checksum(tree, root_ok, enum_order)
    /\ cpc' = IF cpc = "start" THEN "computed" ELSE "recomputed"
    /\ UNCHANGED <<tree, root_ok, enum_order, prev_returned, edit>>
    /\ UNCHANGED notChecksumVars

(* between two calls a file is created in the directory ... *)
AddFile ==
    /\ cpc = "computed"
    /\ root_ok
    /\ \E pth \in (TopPaths \cup SubPaths) \ PathsOf(tree) : \E st \in FileStates :
        /\ ValidPaths(PathsOf(tree) \cup {pth})
        /\ tree' = tree \cup {File(pth, st.content, st.readable)}
        /\ edit' = IF st.readable THEN "add" ELSE "add_unreadable"
    /\ prev_returned' = returned
    /\ cpc' = "edited"
    /\ UNCHANGED <<root_ok, enum_order, returned>>
    /\ UNCHANGED notChecksumVars

(* ... or a file is removed ... *)
RemoveFile ==
    /\ cpc = "computed"
    /\ root_ok
    /\ \E f \in tree :
        /\ tree' = tree \ {f}
        /\ edit' = IF f.readable THEN "remove" ELSE "remove_unreadable"
    /\ prev_returned' = returned
    /\ cpc' = "edited"
    /\ UNCHANGED <<root_ok, enum_order, returned>>
    /\ UNCHANGED notChecksumVars

(* ... or a file is given another name in its directory ... *)
RenameFile ==
    /\ cpc = "computed"
    /\ root_ok
    /\ \E f \in tree : \E n \in Names :
        LET pth == Append(SubSeq(f.path, 1, Len(f.path) - 1), n)
        IN /\ pth \in (TopPaths \cup SubPaths) \ PathsOf(tree)
           /\ ValidPaths((PathsOf(tree) \ {f.path}) \cup {pth})
           /\ tree' = (tree \ {f}) \cup {File(pth, f.content, f.readable)}
           /\ edit' = IF f.readable THEN "rename" ELSE "rename_unreadable"
    /\ prev_returned' = returned
    /\ cpc' = "edited"
    /\ UNCHANGED <<root_ok, enum_order, returned>>
    /\ UNCHANGED notChecksumVars

(* ... or nothing changes but the order in which the names are listed     *)
(* (which may also stay the same)                                          *)
Reenumerate ==
    /\ cpc = "computed"
    /\ root_ok
    /\ enum_order' \in Enumerations
    /\ edit' = "reenumerate"
    /\ prev_returned' = returned
    /\ cpc' = "edited"
    /\ UNCHANGED <<tree, root_ok, returned>>
    /\ UNCHANGED notChecksumVars

ChecksumNext ==
    \/ CalculateChecksum
    \/ AddFile \/ RemoveFile \/ RenameFile \/ Reenumerate

----------------------------------------------------------------------------
(* Specifications: each part runs with the other parts at rest *)

ResolverIdle ==
    /\ meta = [i \in Ids |-> FileDetails(FALSE, {})]
    /\ file_ids = {}
    /\ cached_file_details = {}
    /\ new_file_ids = {}
    /\ remaining = {}
    /\ child_ids = {}
    /\ fetchCount = [i \in Ids |-> 0]
    /\ rpc = "idle"
    /\ batches = <<>>
    /\ in_flight = {}

WorkerIdle ==
    /\ emitted = <<>>
    /\ todo = <<>>
    /\ pipe = <<>>
    /\ pipeClosed = FALSE
    /\ proc = "none"
    /\ exitCode = 0
    /\ reader = "none"
    /\ interrupts = 0
    /\ interruptTx = FALSE
    /\ interruptSent = 0
    /\ killAttempted = FALSE
    /\ output = "none"
    /\ lines = <<>>
    /\ received = <<>>
    /\ consumer = "none"
    /\ handle = "none"
    /\ waitResult = [kind |-> "none", code |-> 0]
    /\ take_results = <<>>

BatchIdle ==
    /\ manifest = <<>>
    /\ local = <<>>
    /\ bpc = "idle"
    /\ next_entry = 1
    /\ entries_to_download = <<>>
    /\ skipped = {}
    /\ ignore_checksum = FALSE
    /\ next_download = 1
    /\ errors = 0
    /\ spawned = {}
    /\ spawnAttempts = {}
    /\ waitFailed = {}
    /\ copied = {}
    /\ verified = {}
    /\ mismatched = {}
    /\ reported = -1

FolderIdle ==
    /\ collection_dir = "present"
    /\ last_copy = NoCopy
    /\ answer = "none"

UpdateIdle ==
    /\ mode = "none"
    /\ UpdateUnused

ChecksumIdle ==
    /\ tree = {}
    /\ root_ok = TRUE
    /\ enum_order = <<>>
    /\ returned = NoDigest
    /\ prev_returned = NoDigest
    /\ edit = "none"
    /\ cpc = "idle"

OthersIdle == FolderIdle /\ UpdateIdle /\ ChecksumIdle

InitResolver == ResolverInit /\ WorkerIdle /\ BatchIdle /\ OthersIdle

SpecResolver == InitResolver /\ [][ResolverNext]_vars

(* the call is sequential code: whatever step is enabled is taken *)
FairSpecResolver == SpecResolver /\ WF_vars(ResolverNext)

SpecResolverCalls == InitResolver /\ [][ResolverCallsNext]_vars

InitWorker == WorkerInit /\ ResolverIdle /\ BatchIdle /\ OthersIdle

SpecWorker == InitWorker /\ [][WorkerNext]_vars

SpecWorkerTake == InitWorker /\ [][WorkerTakeNext]_vars

InitImport == ImportInit /\ ResolverIdle /\ WorkerIdle /\ ChecksumIdle

SpecImport == InitImport /\ [][ImportNext]_vars

InitUpdate == UpdateInit /\ ResolverIdle /\ WorkerIdle /\ ChecksumIdle

SpecUpdate == InitUpdate /\ [][UpdateNext]_vars

SpecBatch == (InitImport \/ InitUpdate) /\ [][BatchNext]_vars

InitRoundTrip == ExportInit /\ ResolverIdle /\ WorkerIdle /\ ChecksumIdle

SpecRoundTrip == InitRoundTrip /\ [][RoundTripNext]_vars

InitChecksum ==
    ChecksumInit /\ ResolverIdle /\ WorkerIdle /\ BatchIdle /\ FolderIdle /\ UpdateIdle

SpecChecksum == InitChecksum /\ [][ChecksumNext]_vars

(* read_jh is a running thread: its next read or check is eventually done *)
ReaderStep == ReadLine \/ ReadInvalid \/ ReadWouldBlock \/ ReadAtEnd \/ ReaderCheck

FairSpecWorker == SpecWorker /\ WF_vars(ReaderStep)

(* the logger thread of download is a running thread as well *)
ConsumerStep == ConsumerRecv \/ ConsumerEnd

(* in download the handle is a local of the loop body: once wait has       *)
(* returned, the iteration ends (or continue, or ?) and the handle drops   *)
DropAfterWait == handle = "returned" /\ Drop

FairSpecLogger ==
    SpecWorker /\ WF_vars(ReaderStep) /\ WF_vars(ConsumerStep) /\ WF_vars(DropAfterWait)

----------------------------------------------------------------------------
(* the ids reachable from S by following the child lists of FileDetails *)
RECURSIVE ReachableFrom(_)
ReachableFrom(S) ==
    LET step == S \cup UNION {meta[i].children : i \in {j \in S : meta[j].kind = "FileDetails"}}
    IN IF step = S THEN S ELSE ReachableFrom(step)

ResolverReturned == rpc = "done"

(* C1: over one call every id is passed to get_published_file_details at   *)
(* most once, also when a child is itself a root or shares the frontier    *)
(* with its parent, has several parents, or closes a cycle.                *)
C1_EachIdFetchedAtMostOnce == \A i \in Ids : fetchCount[i] <= 1

(* C2: for every finite catalog, cycles and self-references included, the  *)
(* resolution loop eventually reaches an empty frontier and returns (or    *)
(* the fetch itself fails).                                                *)
C2_ResolverTerminates == <>(rpc \in {"done", "failed", "panicked"})

C2_Witness ==
    /\ rpc = "done"
    /\ 1 \in file_ids
    /\ meta[1].children = {1, 2}
    /\ 1 \in meta[2].children

(* C3: when the call returns, the keys of the result map are exactly the   *)
(* ids reachable from the roots through the child lists of FileDetails.    *)
C3_ResultIsClosure == ResolverReturned => cached_file_details = ReachableFrom(file_ids)

C3_Witness ==
    /\ rpc = "done"
    /\ file_ids = {1}
    /\ meta[1].children = {2}
    /\ meta[2].children = {1}
    /\ cached_file_details = {1, 2}

----------------------------------------------------------------------------
(* Claims about the process supervisor *)

(* C6: after wait has returned, with success or with an exit-code failure, *)
(* the reader thread of the handle is no longer running.                   *)
C6_NoReaderAfterWait ==
    (handle = "returned" /\ waitResult.kind \in {"Ok", "WorkerExitCode"}) => reader = "exited"

(* C7: once the handle is destroyed, with or without a wait before, the    *)
(* cancellation signal has been sent and the kill attempted, and from then *)
(* on the reader thread eventually exits and the process is not running.   *)
C7_NoLeakAfterDrop ==
    /\ [](handle = "dropped" => (interruptSent >= 1 /\ killAttempted))
    /\ (handle = "dropped") ~> (reader = "exited" /\ proc = "exited")

C7_Witness ==
    /\ handle = "dropped"
    /\ waitResult.kind = "none"
    /\ exitCode = KillCode
    /\ reader = "exited"
    /\ proc = "exited"

(* C8: wait returns Ok exactly when the exit status it collected is 0, and *)
(* WorkerExitCode(c) carrying the same c for every other status c.         *)
C8_WaitCarriesExitCode ==
    waitResult.kind \in {"Ok", "WorkerExitCode"} =>
        /\ (waitResult.kind = "Ok") <=> (exitCode = 0)
        /\ exitCode # 0 => waitResult = WorkerExitCode(exitCode)

C8_Witness == waitResult = WorkerExitCode(3) /\ exitCode = 3 /\ handle = "returned"

RECURSIVE IsSubsequence(_, _)
IsSubsequence(a, b) ==
    IF a = <<>> THEN TRUE
    ELSE IF b = <<>> THEN FALSE
    ELSE IF Head(a) = Head(b) THEN IsSubsequence(Tail(a), Tail(b))
    ELSE IsSubsequence(a, Tail(b))

(* the text of the emitted lines, as the consumer is meant to see them *)
CleanedEmitted == [i \in 1..Len(emitted) |-> Clean(emitted[i])]

(* C9: the lines the consumer receives are an order-preserving subsequence *)
(* of the lines the helper emitted (cleaned), and none of them is empty.   *)
C9_ReceivedInEmissionOrder ==
    /\ IsSubsequence(received, CleanedEmitted)
    /\ \A i \in 1..Len(received) : received[i] # <<>>

----------------------------------------------------------------------------
(* Claims about the download batch and the import reconciliation *)

(* schedule index i has been handled and the loop went on to the next one *)
WentOnAfter(i) ==
    /\ next_download > i
    /\ i + 1 <= Len(Schedule) =>
         (i + 1 \in spawnAttempts \/ (bpc = "download" /\ next_download = i + 1))

(* C4: when spawning the helper fails for a scheduled entry, every later   *)
(* entry is still attempted and the failure adds exactly one to the error  *)
(* count of the final report.                                              *)
C4_SpawnFailureTolerated ==
    \A i \in spawnAttempts \ spawned :
        /\ WentOnAfter(i)
        /\ errors >= 1

(* C5: when wait fails for an entry the error count grows by exactly one,  *)
(* the entry is neither copied nor checksum-verified, and the loop goes on *)
(* to the next scheduled entry.                                            *)
C5_WaitFailureCountedAndSkipped ==
    /\ \A i \in waitFailed :
        /\ i \notin copied
        /\ i \notin verified
        /\ WentOnAfter(i)
    /\ waitFailed \cap mismatched = {}
    /\ errors = Cardinality(waitFailed) + Cardinality(mismatched)

C5_Witness ==
    /\ Len(Schedule) = 3
    /\ waitFailed = {2}
    /\ copied = {1, 3}
    /\ errors = 1
    /\ reported = 1

Scheduled(i) == \E k \in 1..Len(entries_to_download) : entries_to_download[k][1] = manifest[i]
RationaleOf(i) ==
    LET k == CHOOSE k \in 1..Len(entries_to_download) : entries_to_download[k][1] = manifest[i]
    IN entries_to_download[k][2]
Contains(rationale, text) == \E j \in 1..Len(rationale) : rationale[j] = text

(* C10: in import mode an entry without checksum is scheduled with "No     *)
(* comparison checksum"; with a checksum equal to the local one it is      *)
(* skipped; with a checksum different from the local one it is scheduled   *)
(* with a rationale holding both checksums; with a checksum and no local   *)
(* copy it is scheduled with "No local version". Nothing else is skipped.  *)
C10_ImportDecisions ==
    bpc \in {"diff", "confirm"} =>
        \A i \in 1..(next_entry - 1) :
            LET e == manifest[i]
                loc == local[e.id]
            IN /\ Scheduled(i) <=> i \notin skipped
               /\ e.checksum = NoChecksum =>
                    Scheduled(i) /\ RationaleOf(i) = <<"No comparison checksum">>
               /\ (e.checksum # NoChecksum /\ loc = e.checksum) => i \in skipped
               /\ (e.checksum # NoChecksum /\ loc \in Checksums /\ loc # e.checksum) =>
                    /\ Scheduled(i)
                    /\ Contains(RationaleOf(i), loc)
                    /\ Contains(RationaleOf(i), e.checksum)
               /\ (e.checksum # NoChecksum /\ loc = "absent") =>
                    Scheduled(i) /\ RationaleOf(i) = <<"No local version">>
               /\ i \in skipped => (e.checksum # NoChecksum /\ loc = e.checksum)

(* the four entries of the example: match, mismatch, no checksum, no local copy *)
C10_Witness ==
    /\ bpc = "confirm"
    /\ Len(manifest) = 4
    /\ manifest[1].checksum = "X" /\ local[1] = "X"
    /\ manifest[2].checksum = "X" /\ local[2] = "Y"
    /\ manifest[3].checksum = NoChecksum
    /\ manifest[4].checksum = "X" /\ local[4] = "absent"
    /\ skipped = {1}
    /\ Len(entries_to_download) = 3

----------------------------------------------------------------------------
(* Update classification and presentation *)

Occurrences(seq, x) == Cardinality({k \in 1..Len(seq) : seq[k] = x})
InList(seq, x) == Occurrences(seq, x) > 0

(* the classification loop has visited every entry of the resolved map *)
ClassificationOver == mode = "update" /\ bpc # "resolve" /\ unclassified = {}

(* C11: in update mode every id of the resolved closure is in exactly one  *)
(* of the three lists: FileDetails with no local creation time, or with a  *)
(* remote time strictly newer than it, in the schedule; FileDetails with a *)
(* remote time equal or older in the up-to-date list; MissingItem in the   *)
(* error list and in neither of the other two                              *)
C11_UpdateClassification ==
    ClassificationOver =>
      /\ \A id \in DOMAIN workshop_details :
          LET item == workshop_details[id]
              created == local_created[id]
          IN /\ Occurrences(ids_with_error, id) + Occurrences(ids_to_download, id)
                  + Occurrences(ids_to_ignore, id) = 1
             /\ item.kind = "FileDetails" /\ created = NoTime
                  => InList(ids_to_download, id)
             /\ item.kind = "FileDetails" /\ created # NoTime /\ item.time_updated > created
                  => InList(ids_to_download, id)
             /\ item.kind = "FileDetails" /\ created # NoTime /\ item.time_updated <= created
                  => InList(ids_to_ignore, id)
             /\ item.kind = "MissingItem"
                  => /\ InList(ids_with_error, id)
                     /\ ~ InList(ids_to_download, id)
                     /\ ~ InList(ids_to_ignore, id)
      /\ SetOf(ids_with_error) \cup SetOf(ids_to_download) \cup SetOf(ids_to_ignore)
           = DOMAIN workshop_details

(* one id in each list, the up-to-date one with equal times, the scheduled *)
(* one without a local folder                                              *)
C11_Witness ==
    /\ ClassificationOver
    /\ bpc = "confirm_update"
    /\ Len(ids_with_error) = 1
    /\ Len(ids_to_download) = 1
    /\ Len(ids_to_ignore) = 1
    /\ workshop_details[ids_to_ignore[1]].time_updated = local_created[ids_to_ignore[1]]
    /\ local_created[ids_to_download[1]] = NoTime

(* the key under which an entry is shown: its name, or its id (a digit)    *)
(* when it has none, compared without regard to case                       *)
DisplayRank(entry) ==
    IF entry.name = "none" THEN 48 + entry.id ELSE ByteOf(ToLower(entry.name))

TitlesAscend(ids) ==
    \A k \in 1..(Len(ids) - 1) :
        ByteOf(ToLower(TitleOf(ids[k]))) <= ByteOf(ToLower(TitleOf(ids[k + 1])))

(* C12: in import and in update mode the schedule that is presented and   *)
(* then executed, and the up-to-date list, are sorted case-insensitively   *)
(* by display title, or by id when no title or name is known               *)
C12_PresentationSorted ==
    /\ mode = "import" /\ bpc \in {"confirm", "download"} =>
         \A k \in 1..(Len(Schedule) - 1) :
            DisplayRank(Schedule[k]) <= DisplayRank(Schedule[k + 1])
    /\ mode = "update" /\ bpc \in {"confirm_update", "download"} =>
         /\ TitlesAscend(ids_to_download)
         /\ TitlesAscend(ids_to_ignore)
         /\ bpc = "download" =>
              Schedule = [k \in 1..Len(ids_to_download) |-> UpdateMod(ids_to_download[k])]

(* the update half of C12 on its own *)
UpdateListsSorted ==
    mode = "update" /\ bpc \in {"confirm_update", "download"} =>
         /\ TitlesAscend(ids_to_download)
         /\ TitlesAscend(ids_to_ignore)

----------------------------------------------------------------------------
(* The confirmation gate *)

(* no helper was spawned and no item folder was touched so far *)
NothingDone == spawnAttempts = {} /\ spawned = {} /\ copied = {} /\ last_copy = NoCopy

(* a step taken without an affirmative answer leaves every item folder alone *)
GateStep == answer' # "yes" => local' = local

(* C13 as stated: in import and update mode no helper is spawned and no    *)
(* item folder is created, replaced or deleted before an affirmative       *)
(* confirmation; when the confirmation is declined the command ends with   *)
(* success, zero errors and no side effects (the collection directory is   *)
(* not created either)                                                     *)
C13_ConfirmationGate ==
    /\ [](answer # "yes" => NothingDone)
    /\ [][GateStep]_vars
    /\ [](answer = "no" => bpc = "done" /\ errors = 0 /\ collection_dir # "created")

(* C13 amended: as above, except that a declined command may leave behind  *)
(* the empty collection directory that get_collection_dir created          *)
C13_GateButCollectionDir ==
    /\ [](answer # "yes" => NothingDone)
    /\ [][GateStep]_vars
    /\ [](answer = "no" => bpc = "done" /\ errors = 0 /\ reported = -1)

(* a schedule of two entries was shown and declined *)
C13_Witness ==
    /\ answer = "no"
    /\ bpc = "done"
    /\ Len(entries_to_download) >= 2 \/ Len(ids_to_download) >= 2

----------------------------------------------------------------------------
(* Replacing an item folder *)

(* C14: copy_downloaded_workshop_item replaces a pre-existing destination  *)
(* atomically: whenever the call has returned, with or without an error,   *)
(* the destination holds the complete previous content or the complete new *)
(* content, never nothing and never a partial copy                         *)
C14_CopyIsAtomic ==
    (last_copy # NoCopy /\ last_copy.before # "absent") =>
        \/ local[last_copy.id] = last_copy.before
        \/ last_copy.source # "absent" /\ local[last_copy.id] = last_copy.source

----------------------------------------------------------------------------
(* Verification after the copy *)

----------------------------------------------------------------------------
(* Checksum *)

EmptyDigest == Base64(sha256digest(<<>>))

(* C16: calculate_checksum is a function of the set of (relative name,     *)
(* content) pairs of the directory: called again on the unchanged          *)
(* directory it gives the same digest, whatever the order in which the     *)
(* file system lists the files the second time                             *)
C16_ChecksumDeterministic ==
    (cpc = "recomputed" /\ edit = "reenumerate") =>
        /\ returned.kind = "Ok"
        /\ returned = prev_returned

(* a directory of at least three files, one of them in a subdirectory and  *)
(* two with different contents, listed in another order the second time    *)
C16_Witness ==
    /\ cpc = "recomputed"
    /\ edit = "reenumerate"
    /\ enum_order # Ascending
    /\ Cardinality(tree) >= 3
    /\ \E f \in tree : Len(f.path) = 2
    /\ \E f, g \in tree : f.readable /\ g.readable /\ f.content # g.content

Computed == cpc \in {"computed", "recomputed"}

(* an empty directory (no regular file) yields the hash of the empty buffer *)
EmptyYieldsEmptyDigest ==
    (Computed /\ tree = {}) => returned = [kind |-> "Ok", digest |-> EmptyDigest]

(* C17 as stated: adding a file, removing a file or renaming any file      *)
(* changes the result of calculate_checksum; an empty directory yields the *)
(* hash of the empty buffer                                                *)
C17_ChecksumSensitive ==
    /\ (cpc = "recomputed" /\ edit \in {"add", "add_unreadable", "remove",
                                        "remove_unreadable", "rename",
                                        "rename_unreadable"})
         => returned # prev_returned
    /\ EmptyYieldsEmptyDigest

(* C17 amended: adding or removing a file that can be read changes the     *)
(* result; an empty directory yields the hash of the empty buffer          *)
C17_SensitiveToReadableFiles ==
    /\ (cpc = "recomputed" /\ edit \in {"add", "remove"}) => returned # prev_returned
    /\ EmptyYieldsEmptyDigest

(* the last file of a directory was removed *)
C17_Witness ==
    /\ cpc = "recomputed"
    /\ edit = "remove"
    /\ tree = {}
    /\ returned.digest = EmptyDigest
    /\ prev_returned.digest # EmptyDigest

(* a readable file was renamed and the result is what it was *)
RenameUnnoticed ==
    /\ cpc = "recomputed"
    /\ edit = "rename"
    /\ returned = prev_returned

(* C20: calculate_checksum does not fail because a file cannot be opened   *)
(* or read: the file is skipped, a digest is returned, and it is the       *)
(* digest of the same tree without that file; the call returns an error    *)
(* only when the root itself cannot be traversed                           *)
C20_UnreadableFileSkipped ==
    /\ (Computed /\ returned.kind # "Ok") => ~ root_ok
    /\ (cpc = "recomputed" /\ edit = "remove_unreadable") =>
          /\ prev_returned.kind = "Ok"
          /\ returned = prev_returned

(* a file that could not be read was removed from among readable files *)
C20_Witness ==
    /\ cpc = "recomputed"
    /\ edit = "remove_unreadable"
    /\ Cardinality(tree) >= 2
    /\ returned.digest # EmptyDigest

(* a root that cannot be traversed gives the digest of an empty directory *)
UntraversableRootIsEmpty ==
    (Computed /\ ~ root_ok) => returned = [kind |-> "Ok", digest |-> EmptyDigest]

----------------------------------------------------------------------------
(* Failures inside the resolver *)

(* C18: a failed batch fetch does not abort the resolution: the call never *)
(* ends in the error of one fetch, with batches of the frontier unfetched  *)
(* and the entries obtained so far not returned                            *)
C18_FetchFailureTolerated ==
    /\ rpc # "failed"
    /\ rpc = "done" => remaining = {}

(* C19: a MissingItem response, whatever its result code, is stored under  *)
(* its id, adds no children to the frontier, and makes neither the fetch   *)
(* nor the resolver fail or panic                                          *)
C19_MissingItemStored ==
    /\ rpc # "panicked"
    /\ \A i \in Ids :
         (meta[i].kind = "MissingItem" /\ fetchCount[i] > 0 /\ rpc \in {"loop", "done"})
            => /\ i \in cached_file_details
               /\ NewChildIds({i}, cached_file_details) = {}

----------------------------------------------------------------------------
(* The output channel of a handle *)

(* C21: the output channel of a WorkerProcess is taken at most once: the   *)
(* first take_output returns the receiver, every later call on the same    *)
(* handle panics and hands out no second receiver                          *)
C21_OutputTakenOnce ==
    /\ Cardinality({k \in 1..Len(take_results) : take_results[k] = "receiver"}) <= 1
    /\ Len(take_results) >= 1 => take_results[1] = "receiver"
    /\ \A k \in 2..Len(take_results) : take_results[k] = "panic"

(* take_output was called twice *)
C21_Witness == take_results = <<"receiver", "panic">>

(* C22: in every round the frontier is split into batches of at most      *)
(* ChunkSize ids that are pairwise disjoint and together cover the         *)
(* frontier (what is not yet in a batch is what the iterator still holds), *)
(* get_published_file_details is called once per batch, and never two      *)
(* calls are in flight.                                                    *)
C22_BatchesPartitionFrontier ==
    /\ Cardinality(in_flight) <= 1
    /\ rpc = "chunks" =>
        /\ \A k \in 1..Len(batches) :
            /\ batches[k] # {}
            /\ Cardinality(batches[k]) <= ChunkSize
        /\ \A j \in 1..Len(batches) : \A k \in 1..Len(batches) :
            j # k => batches[j] \cap batches[k] = {}
        /\ UNION {batches[k] : k \in 1..Len(batches)} \cup remaining = new_file_ids
        /\ UNION {batches[k] : k \in 1..Len(batches)} \cap remaining = {}
        /\ \A c \in in_flight : Len(batches) >= 1 /\ c = batches[Len(batches)]

C22_Witness ==
    /\ rpc = "chunks"
    /\ Len(batches) = 2
    /\ remaining = {}
    /\ in_flight = {batches[2]}
    /\ Cardinality(new_file_ids) > ChunkSize

(* C23: a download batch that runs to its end reports a total equal to the *)
(* number of entries whose wait failed plus the number of entries whose    *)
(* recomputed checksum mismatched, and download returns Ok whether that    *)
(* total is zero or not; a batch ended by a returned error reports nothing *)
C23_ReportedTotal ==
    /\ reported # -1 =>
        /\ next_download > Len(Schedule)
        /\ reported = Cardinality(waitFailed) + Cardinality(mismatched)
        /\ bpc = "done"
    /\ bpc = "failed" => reported = -1
    /\ (bpc = "done" /\ answer = "yes") => reported # -1

C23_Witness ==
    /\ bpc = "done"
    /\ reported = 2
    /\ Cardinality(waitFailed) = 1
    /\ Cardinality(mismatched) = 1

(* C24: the thread that forwards the output channel to the logger ends for *)
(* every download: once the helper has exited and wait has returned or the *)
(* handle has been dropped, the reader thread exits (dropping the sender)  *)
(* and the forwarding loop ends.                                           *)
C24_LoggerThreadEnds ==
    (consumer = "running" /\ proc = "exited" /\ handle \in {"returned", "dropped"})
        ~> (reader = "exited" /\ consumer = "done")

C24_Witness ==
    /\ consumer = "done"
    /\ reader = "exited"
    /\ proc = "exited"
    /\ handle = "dropped"
    /\ waitResult = ConptyError
    /\ ~ pipeClosed
    /\ received # <<>>

(* String::from_utf8_lossy: every invalid byte becomes the replacement     *)
(* character "r"                                                           *)
Lossy(bs) == [i \in 1..Len(bs) |-> IF bs[i] = "x" THEN "r" ELSE bs[i]]

(* C25: in the reader loop a would-block never ends the loop, a complete   *)
(* line with invalid bytes is decoded with replacement and forwarded       *)
(* (neither dropped nor ending the loop), and a read ends the loop only at *)
(* end of stream or on a read error of the stream; the other way out is    *)
(* the cancellation signal at the check.                                   *)
C25_ReaderLoopPermissive ==
    [][ /\ (reader = "read" /\ ~ HasNewline(pipe) /\ ~ pipeClosed) => reader' # "exited"
        /\ (reader = "read" /\ reader' = "exited") => (~ HasNewline(pipe) /\ pipeClosed)
        /\ (reader = "read" /\ reader' # "read" /\ HasNewline(pipe)) =>
              LET raw == SubSeq(pipe, 1, FirstNewline(pipe))
              IN (Clean(Lossy(raw)) # <<>> /\ output \in {"some", "taken"}) =>
                    lines' = Append(lines, Clean(Lossy(raw)))
      ]_vars

(* the bytes of bs up to its last newline: the complete lines *)
RECURSIVE UpToLastNewline(_)
UpToLastNewline(bs) ==
    IF bs = <<>> \/ bs[Len(bs)] = "n" THEN bs
    ELSE UpToLastNewline(SubSeq(bs, 1, Len(bs) - 1))

(* the complete lines among the bytes bs that are non-empty once cleaned *)
NonEmptyLinesIn(bs) ==
    LET ls == SplitLines(UpToLastNewline(bs), <<>>)
    IN {i \in 1..Len(ls) : Clean(ls[i]) # <<>>}

(* C26: every non-empty line the helper emitted before it exited is        *)
(* delivered, also when wait or the teardown sends the cancellation right  *)
(* after the exit: when the reader leaves its loop on the cancellation     *)
(* signal, no complete emitted line is still unread in the pipe.           *)
C26_CancellationKeepsOutput ==
    [][ (reader = "check" /\ reader' = "exited" /\ proc = "exited")
            => NonEmptyLinesIn(pipe) = {} ]_vars

(* C27: importing the manifest that export wrote from the same unchanged   *)
(* collection schedules no download: every exported entry carries the      *)
(* checksum of its local folder, every entry is skipped, and the import    *)
(* ends with nothing to be done, never reaching the prompt or a download.  *)
C27_ExportImportRoundTrip ==
    /\ entries_to_download = <<>>
    /\ bpc \notin {"confirm", "download"}
    /\ spawnAttempts = {}
    /\ answer = "none"
    /\ mode = "import" =>
        /\ \A k \in 1..Len(manifest) :
            /\ manifest[k].checksum # NoChecksum
            /\ manifest[k].checksum = LocalChecksum(local[manifest[k].id])
        /\ skipped = 1..(next_entry - 1)
        /\ bpc = "done" => skipped = 1..Len(manifest)

C27_Witness ==
    /\ mode = "import"
    /\ bpc = "done"
    /\ Len(manifest) = 3
    /\ skipped = {1, 2, 3}
    /\ manifest[1].id = LossyName
    /\ \E k \in 1..3 : manifest[k].checksum = "X"
    /\ \E k \in 1..3 : manifest[k].checksum = "Y"

(* C28: when the helper's output directory for the item does not exist,    *)
(* copy_downloaded_workshop_item returns a NotFound error and the          *)
(* destination of that item in the collection is what it was before.       *)
C28_MissingSourceKeepsDestination ==
    (last_copy # NoCopy /\ last_copy.source = "absent") =>
        /\ ~ last_copy.ok
        /\ last_copy.err = "NotFound"
        /\ local[last_copy.id] = last_copy.before
        /\ bpc = "failed"

C28_Witness ==
    /\ last_copy.source = "absent"
    /\ last_copy.err = "NotFound"
    /\ last_copy.before = "X"
    /\ local[last_copy.id] = "X"
    /\ bpc = "failed"

====
